---- MODULE Spec2Model ----
(***************************************************************************)
(* AbstractRepository (src/src/index.ts) over a paranoid Sequelize model   *)
(* (src/test/models/user.model.ts): one table with a primary key, a name,  *)
(* a uniquely-constrained nullable column and the deletedAt timestamp.     *)
(* The store is read-committed: a managed transaction keeps its writes in  *)
(* an overlay until it commits; calls without the handle see and change    *)
(* the committed table only.                                               *)
(***************************************************************************)
EXTENDS Integers, Sequences, FiniteSets, TLC

\* ------------------------------------------------------------------ bounds
MaxKeys == 2
MaxOps == 3

\* --------------------------------------------------------------- constants
DefaultLimit == 10
DefaultOffset == 0

Keys == 1..MaxKeys
NoKey == 0
Names == {"a", "b"}
NULL == "NULL"
UniqueValues == {NULL, "u"}
NoDate == 0

\* ------------------------------------------------------------------- rows
\* A table is a function Keys -> row; an absent row is NoRow.
NoRow == [exists |-> FALSE, name |-> "-", unique_field |-> NULL, deletedAt |-> NoDate]

Row(name, uf, del) ==
  [exists |-> TRUE, name |-> name, unique_field |-> uf, deletedAt |-> del]

\* A model instance as the repository returns it; null is NullEntity.
NullEntity ==
  [found |-> FALSE, id |-> NoKey, name |-> "-", unique_field |-> NULL, deletedAt |-> NoDate]

Entity(k, row) ==
  [found |-> TRUE, id |-> k, name |-> row.name,
   unique_field |-> row.unique_field, deletedAt |-> row.deletedAt]

\* --------------------------------------------------------------- errors
\* An error object is its class and the place that constructed it.
NoError == [kind |-> "none", at |-> "none"]
InternalServerErrorException(at) == [kind |-> "InternalServerErrorException", at |-> at]
\* What a callback rejects with: its own error, or the error of a repository
\* call that failed inside it.
CallbackErrors ==
  {[kind |-> "NotFoundException", at |-> "callback"],
   InternalServerErrorException("create")}

VARIABLES
  db,        \* the committed table
  txw,       \* rows written through the open transaction's handle
  txTouched, \* keys written through the open transaction's handle
  txn,       \* the current transaction() invocation
  usedKeys,  \* primary keys some insert has used (the default never repeats one)
  purged,    \* keys whose committed row a force delete removed
  handles,   \* number of store transactions opened
  nops,      \* number of writing calls and transaction() calls made
  autoGenerateId, \* the repository's option, fixed by the constructor
  pending,   \* calls in flight: the local variables of each between its awaits
  scan,      \* a caller paging through findAllPaginated: the pages received so far
  last       \* the last repository call: arguments, result, error, log

vars ==
  <<db, txw, txTouched, txn, usedKeys, purged, handles, nops, autoGenerateId, pending, scan, last>>

store == <<db, txw, txTouched, usedKeys, purged>>

TxOpen == txn.status = "open"

\* new Date(): an instant later than every timestamp the store holds.
MaxOf(S) == IF S = {} THEN 0 ELSE CHOOSE x \in S : \A y \in S : y <= x
now == 1 + MaxOf({db[k].deletedAt : k \in Keys} \cup {txw[k].deletedAt : k \in Keys})

\* ------------------------------------------------------------ call records
Unset == "-"
NoDto == [id |-> NoKey, name |-> Unset, unique_field |-> Unset, deletedAt |-> NoDate]
NoValue == "none"

NoCall ==
  [op |-> "none", tx |-> FALSE, pk |-> NoKey, paranoid |-> TRUE, force |-> FALSE,
   dto |-> NoDto, query |-> "all", limit |-> 0, offset |-> 0, page |-> 0,
   storeLimit |-> 0, storeOffset |-> 0, value |-> 0,
   dtos |-> <<>>, generated |-> <<>>, rejectOnEmpty |-> FALSE, target |-> "none",
   issued |-> <<>>,
   loaded |-> NullEntity, entity |-> NullEntity, rows |-> <<>>, count |-> 0,
   failed |-> "none", err |-> NoError, log |-> <<>>]

NoTxn ==
  [status |-> "idle", calls |-> 0, handle |-> 0, unbound |-> 0, wrote |-> {},
   raised |-> NoError, returned |-> NoValue,
   resolved |-> NoValue, err |-> NoError, log |-> <<>>]

\* A call in flight: an async method suspended at an await, with its
\* arguments and the entity it loaded (`const entity`).
MaxTasks == 2
Tasks == 1..MaxTasks
Idle ==
  [pc |-> "idle", op |-> "none", pk |-> NoKey, force |-> FALSE, dto |-> NoDto,
   entity |-> NullEntity, result |-> NoCall]
NonePending == [t \in Tasks |-> Idle]

\* A caller that reads page after page keeps limit and predicate, asks for
\* page `next` next, and has received the ids `seen` and the counts `counts`.
\* `stable` are the keys that matched at every request so far; `changed`
\* tells that the table changed between two of the requests.
NoScan ==
  [status |-> "none", limit |-> 0, query |-> "all", next |-> 1,
   seen |-> <<>>, counts |-> <<>>, stable |-> {}, changed |-> FALSE]

\* `await this.model.<name>(..)` / `await entity.<name>(..)`: the store call is
\* issued once, whether it resolves or rejects.
\* (faulty variant StoreCall_retried: issued again)
StoreCall_retried(name) == <<name, name>>
StoreCall(name) == <<name>>

\* logger.error(`<prefix>: ${error}`)
LogEntry(prefix, error) == [prefix |-> prefix, error |-> error]

\* dto of create/insert: the primary key may be omitted (NoKey), deletedAt may
\* be given (test 'should restore a user'); unique_field defaults to NULL.
CreateDtos ==
  [id : {NoKey} \cup Keys, name : Names, unique_field : UniqueValues,
   deletedAt : {NoDate, now}]

\* dto of updateByPk: a partial attribute set, Unset marks an omitted field.
UpdateDtos ==
  [id : {NoKey}, name : Names \cup {Unset}, unique_field : UniqueValues \cup {Unset},
   deletedAt : {NoDate}]

\* dtos of insertMany: up to MaxBatch attribute sets without a primary key.
MaxBatch == 2
BatchDto(uf) == [id |-> NoKey, name |-> "a", unique_field |-> uf, deletedAt |-> NoDate]
Batches ==
  UNION {[1..n -> {BatchDto(uf) : uf \in UniqueValues}] : n \in 0..MaxBatch}

Queries == {"all", "name=a"}
ReturnValues == {"r1", "r2"}

\* ------------------------------------------------------------------ store
\* What a query sees: through the handle the transaction's own writes over
\* the committed table, without it the committed table.
View(usetx) ==
  IF usetx THEN [k \in Keys |-> IF k \in txTouched THEN txw[k] ELSE db[k]] ELSE db


\* A write without the handle waits for the rows the open transaction holds.
Blocked(usetx, k, uf) ==
  /\ ~usetx
  /\ TxOpen
  /\ \/ k \in txTouched
     \/ /\ uf # NULL
        /\ \E j \in txTouched :
             \/ db[j].exists /\ db[j].unique_field = uf
             \/ txw[j].exists /\ txw[j].unique_field = uf

\* The paranoid clause of a paranoid model: deletedAt IS NULL.
\* (faulty variant: the clause left out)
Visible_all(row, paranoid) == row.exists
Visible(row, paranoid) == row.exists /\ (paranoid => row.deletedAt = NoDate)

\* UNIQUE(unique_field), NULLs never collide; soft-deleted rows still count.
UniqueViolation(tbl, k, uf) ==
  /\ uf # NULL
  /\ \E j \in Keys \ {k} : tbl[j].exists /\ tbl[j].unique_field = uf

WriteRow(usetx, k, row) ==
  IF usetx
  THEN /\ txw' = [txw EXCEPT ![k] = row]
       /\ txTouched' = txTouched \cup {k}
       /\ UNCHANGED <<db, purged>>
  ELSE /\ db' = [db EXCEPT ![k] = row]
       /\ purged' = IF db[k].exists /\ ~row.exists THEN purged \cup {k} ELSE purged
       /\ UNCHANGED <<txw, txTouched>>

\* A call without the handle that changed the committed table while a
\* transaction is open is counted in that transaction's record.
NoteUnbound ==
  IF TxOpen /\ db' # db THEN [txn EXCEPT !.unbound = @ + 1] ELSE txn

\* constructor(model, options = {}): nothing stored, nothing called yet
Constructed(options) ==
  /\ db = [k \in Keys |-> NoRow]
  /\ txw = [k \in Keys |-> NoRow]
  /\ txTouched = {}
  /\ txn = NoTxn
  /\ usedKeys = {}
  /\ purged = {}
  /\ handles = 0
  /\ nops = 0
  /\ autoGenerateId = options.autoGenerateId
  /\ pending = NonePending
  /\ scan = NoScan
  /\ last = NoCall

\* const { autoGenerateId = false, ... } = options
DefaultOptions == [autoGenerateId |-> FALSE]

Init == Constructed(DefaultOptions)

\* @Default(DataType.UUIDV4) on the primary key: a key no insert has used.
\* Keys are interchangeable, so the least unused one stands for the new UUID.
DefaultKey ==
  IF Keys \ usedKeys = {} THEN NoKey
  ELSE CHOOSE k \in Keys \ usedKeys : \A j \in Keys \ usedKeys : k <= j

\* ------------------------------------------------------------ id generation
\* (src/src/abstract.repository.ts)
RECURSIVE FreshKeys(_, _)
FreshKeys(n, free) ==
  IF n = 0 THEN <<>>
  ELSE IF free = {} THEN <<NoKey>> \o FreshKeys(n - 1, free)
       ELSE LET k == CHOOSE x \in free : \A y \in free : x <= y
            IN <<k>> \o FreshKeys(n - 1, free \ {k})

\* idGenerator = uuidv7, called n times in a row: n values never returned
\* before (NoKey: the bounded key space is used up).
idGenerator(n) == FreshKeys(n, Keys \ usedKeys)

\* const id = this.autoGenerateId ? { [this.idField]: this.idGenerator() } : {}
createId == IF autoGenerateId THEN idGenerator(1) ELSE <<>>

\* { ...dto, ...id }
createAttributes(dto, id) == IF id = <<>> THEN dto ELSE [dto EXCEPT !.id = id[1]]

\* if (this.autoGenerateId) dtos.map(...): one idGenerator() call per dto
\* (faulty variant insertManyIds_reused: one generated id for the whole batch)
insertManyIds_reused(dtos) ==
  IF autoGenerateId THEN [i \in 1..Len(dtos) |-> idGenerator(1)[1]] ELSE <<>>
insertManyIds(dtos) == IF autoGenerateId THEN idGenerator(Len(dtos)) ELSE <<>>

\* identifiedDtos: ({ ...dto, [this.idField]: this.idGenerator() }), or dtos
identifiedDtos(dtos, ids) ==
  [i \in 1..Len(dtos) |->
     IF autoGenerateId THEN [dtos[i] EXCEPT !.id = ids[i]] ELSE dtos[i]]

\* ----------------------------------------------------------------- create
\* (faulty variant createCatch_swallow: the error dropped)
createCatch_swallow(storeError) == NoError
\* catch (error) { logger.error(`insert: ${error}`); throw new InternalServerErrorException() }
createCatch(storeError) == InternalServerErrorException("create")

\* Model.create(dto, options): INSERT, or the store's error.
\* (faulty variant ModelCreateError_noConflict: no constraint is checked)
ModelCreateError_noConflict(tbl, k, row, blocked, fail) ==
  IF fail \/ blocked THEN "DatabaseError" ELSE "none"
ModelCreateError(tbl, k, row, blocked, fail) ==
  IF fail \/ blocked THEN "DatabaseError"
  ELSE IF tbl[k].exists \/ UniqueViolation(tbl, k, row.unique_field)
       THEN "UniqueConstraintError"
       ELSE "none"

\* this.model.create(dto, options): the row the dto's attributes make.
\* (faulty variant createRow_noUnique: unique_field dropped)
createRow_noUnique(dto) == Row(dto.name, NULL, dto.deletedAt)
createRow(dto) == Row(dto.name, dto.unique_field, dto.deletedAt)

\* this.model.create(dto, options): the statement runs in options.transaction,
\* if given, and on its own otherwise.
\* (faulty variant createOptions_cls: bound to whatever transaction is open)
createOptions_cls(usetx) == TxOpen
createOptions(usetx) == usetx

\* create(dto, options), also reached through insert (op names the entry point)
createCall(op, dto, usetx, fail) ==
  /\ nops < MaxOps
  /\ usetx => TxOpen
  /\ \E k \in Keys :  \* no unused key left: the call is out of the bounds
       /\ k = LET id == createAttributes(dto, createId).id
              IN IF id = NoKey THEN DefaultKey ELSE id
       /\ LET row == createRow(createAttributes(dto, createId))
              tx == createOptions(usetx)
              e == ModelCreateError(View(tx), k, row,
                                    Blocked(tx, k, row.unique_field), fail)
              call == [NoCall EXCEPT !.op = op, !.tx = usetx, !.generated = createId,
                                     !.issued = StoreCall("create")]
          IN IF e = "none"
             THEN /\ WriteRow(tx, k, row)
                  /\ usedKeys' = usedKeys \cup {k}
                  /\ last' = [call EXCEPT !.pk = k, !.dto = dto,
                                          !.entity = Entity(k, row)]
             ELSE /\ last' = [call EXCEPT
                                !.dto = IF e = "UniqueConstraintError" THEN dto ELSE NoDto,
                                !.failed = e,
                                !.err = createCatch(e),
                                !.log = <<LogEntry("insert", e)>>]
                  /\ UNCHANGED store
  /\ nops' = nops + 1
  /\ txn' = NoteUnbound
  /\ UNCHANGED <<handles, autoGenerateId>>

\* ------------------------------------------------------------------ reads
RECURSIVE ScanOrder(_)
\* The order the store returns rows in: ascending primary key.
ScanOrder(S) ==
  IF S = {} THEN <<>>
  ELSE LET k == CHOOSE x \in S : \A y \in S : x <= y
       IN <<k>> \o ScanOrder(S \ {k})

Matches(row, query) ==
  CASE query = "all" -> TRUE
    [] query = "name=a" -> row.name = "a"

\* SELECT ... WHERE <query> [AND deletedAt IS NULL]
Select(tbl, query, paranoid) ==
  LET keys == ScanOrder({k \in Keys : Visible(tbl[k], paranoid) /\ Matches(tbl[k], query)})
  IN [i \in 1..Len(keys) |-> Entity(keys[i], tbl[keys[i]])]

\* Model.findByPk(primaryKey, options)
ModelFindByPk(tbl, k, paranoid) ==
  IF Visible(tbl[k], paranoid) THEN Entity(k, tbl[k]) ELSE NullEntity

\* Find options of a repository read: the paranoid flag, the transaction and
\* rejectOnEmpty, which the caller may add to the options of a read.
\* (faulty variant FindOptions_rejectOnEmpty: rejectOnEmpty always set)
FindOptions_rejectOnEmpty(paranoid, usetx) ==
  [paranoid |-> paranoid, transaction |-> usetx, rejectOnEmpty |-> TRUE]
FindOptions(paranoid, usetx) ==
  [paranoid |-> paranoid, transaction |-> usetx, rejectOnEmpty |-> FALSE]
RejectOnEmpty(options, reject) == [options EXCEPT !.rejectOnEmpty = reject]

\* Model.findAll / findOne / findByPk with rejectOnEmpty: an empty result
\* throws EmptyResultError.
\* (faulty variant EmptyResult_never: rejectOnEmpty without effect)
EmptyResult_never(options, empty) == FALSE
EmptyResult(options, empty) == options.rejectOnEmpty /\ empty

\* (faulty variant findByPkCall_silent: the error thrown without a log entry)
findByPkCall_silent(k, options, fail) ==
  LET found == ModelFindByPk(View(options.transaction), k, options.paranoid)
      e == IF fail THEN "DatabaseError"
           ELSE IF EmptyResult(options, ~found.found) THEN "EmptyResultError"
           ELSE "none"
  IN IF e # "none"
     THEN [entity |-> NullEntity, failed |-> e,
           err |-> InternalServerErrorException("findByPk"),
           log |-> <<>>, issued |-> StoreCall("findByPk")]
     ELSE [entity |-> found, failed |-> "none", err |-> NoError, log |-> <<>>,
           issued |-> StoreCall("findByPk")]

\* The public findByPk as the other methods call it: result, error and log.
findByPkCall(k, options, fail) ==
  LET found == ModelFindByPk(View(options.transaction), k, options.paranoid)
      e == IF fail THEN "DatabaseError"
           ELSE IF EmptyResult(options, ~found.found) THEN "EmptyResultError"
           ELSE "none"
  IN IF e # "none"
     THEN [entity |-> NullEntity, failed |-> e,
           err |-> InternalServerErrorException("findByPk"),
           log |-> <<LogEntry("findByPk", e)>>, issued |-> StoreCall("findByPk")]
     ELSE [entity |-> found, failed |-> "none", err |-> NoError, log |-> <<>>,
           issued |-> StoreCall("findByPk")]

\* findByPk(primaryKey, options)
findByPkWith(k, options, fail) ==
  /\ options.transaction => TxOpen
  /\ LET r == findByPkCall(k, options, fail)
     IN last' = [NoCall EXCEPT !.op = "findByPk", !.tx = options.transaction, !.pk = k,
                               !.paranoid = options.paranoid,
                               !.rejectOnEmpty = options.rejectOnEmpty,
                               !.entity = r.entity, !.issued = r.issued,
                               !.failed = r.failed, !.err = r.err, !.log = r.log]
  /\ UNCHANGED <<store, txn, handles, nops, autoGenerateId>>

findByPkAction(k, paranoid, usetx, fail) ==
  findByPkWith(k, FindOptions(paranoid, usetx), fail)

\* findOne(query, options)
findOneWith(query, options, fail) ==
  /\ options.transaction => TxOpen
  /\ LET found == Select(View(options.transaction), query, options.paranoid)
         e == IF fail THEN "DatabaseError"
              ELSE IF EmptyResult(options, found = <<>>) THEN "EmptyResultError"
              ELSE "none"
         call == [NoCall EXCEPT !.op = "findOne", !.tx = options.transaction,
                                !.query = query, !.paranoid = options.paranoid,
                                !.rejectOnEmpty = options.rejectOnEmpty,
                                !.issued = StoreCall("findOne")]
     IN last' =
          IF e # "none"
          THEN [call EXCEPT !.failed = e,
                            !.err = InternalServerErrorException("findOne"),
                            !.log = <<LogEntry("findOne", e)>>]
          ELSE [call EXCEPT !.entity = IF found = <<>> THEN NullEntity ELSE Head(found)]
  /\ UNCHANGED <<store, txn, handles, nops, autoGenerateId>>

findOneAction(query, paranoid, usetx, fail) ==
  findOneWith(query, FindOptions(paranoid, usetx), fail)

\* findAll(query, options)
findAllWith(query, options, fail) ==
  /\ options.transaction => TxOpen
  /\ LET found == Select(View(options.transaction), query, options.paranoid)
         e == IF fail THEN "DatabaseError"
              ELSE IF EmptyResult(options, found = <<>>) THEN "EmptyResultError"
              ELSE "none"
         call == [NoCall EXCEPT !.op = "findAll", !.tx = options.transaction,
                                !.query = query, !.paranoid = options.paranoid,
                                !.rejectOnEmpty = options.rejectOnEmpty,
                                !.issued = StoreCall("findAll")]
     IN last' =
          IF e # "none"
          THEN [call EXCEPT !.failed = e,
                            !.err = InternalServerErrorException("findAll"),
                            !.log = <<LogEntry("findAll", e)>>]
          ELSE [call EXCEPT !.rows = found, !.count = Len(found)]
  /\ UNCHANGED <<store, txn, handles, nops, autoGenerateId>>

findAllAction(query, paranoid, usetx, fail) ==
  findAllWith(query, FindOptions(paranoid, usetx), fail)

\* const { limit = 10, offset = 0, query, findOptions } = options
Omitted == -1
PaginationLimit(limit) == IF limit = Omitted THEN DefaultLimit ELSE limit
\* (faulty variant PaginationOffset_one: the default offset 1)
PaginationOffset_one(offset) == IF offset = Omitted THEN 1 ELSE offset
PaginationOffset(offset) == IF offset = Omitted THEN DefaultOffset ELSE offset

Min(a, b) == IF a <= b THEN a ELSE b

\* (faulty variant FindAndCountAll_pageCount: the count of the page)
FindAndCountAll_pageCount(tbl, query, limit, offset) ==
  LET found == Select(tbl, query, TRUE)
      rows == SubSeq(found, offset + 1, Min(Len(found), offset + limit))
  IN [rows |-> rows, count |-> Len(rows)]

\* Model.findAndCountAll({ where, limit, offset }): the page and the full count
FindAndCountAll(tbl, query, limit, offset) ==
  LET found == Select(tbl, query, TRUE)
  IN [rows |-> SubSeq(found, offset + 1, Min(Len(found), offset + limit)),
      count |-> Len(found)]

\* findAllPaginated({ limit, offset, query }); `page` is a property of the
\* options object the destructuring does not read.
findAllPaginatedAction(limit, offset, page, query, usetx, fail) ==
  /\ usetx => TxOpen
  /\ LET r == FindAndCountAll(View(usetx), query,
                              PaginationLimit(limit), PaginationOffset(offset))
         call == [NoCall EXCEPT !.op = "findAllPaginated", !.tx = usetx,
                                !.query = query, !.limit = limit, !.offset = offset,
                                !.page = page,
                                !.storeLimit = PaginationLimit(limit),
                                !.storeOffset = PaginationOffset(offset),
                                !.issued = StoreCall("findAndCountAll")]
     IN last' =
          IF fail
          THEN [call EXCEPT !.failed = "DatabaseError",
                            !.err = InternalServerErrorException("findAllPaginated"),
                            !.log = <<LogEntry("findAllPaginated", "DatabaseError")>>]
          ELSE [call EXCEPT !.rows = r.rows, !.count = r.count]
  /\ UNCHANGED <<store, txn, handles, nops, autoGenerateId>>

\* ------------------------------------------------------- instance methods
\* entity.set(dto): the named attributes take the given values. The primary
\* key and the timestamps of a loaded instance are read-only.
\* (faulty variant SetAttributes_all: deletedAt is set like any attribute)
SetAttributes_all(entity, dto) ==
  [entity EXCEPT
     !.name = IF dto.name = Unset THEN @ ELSE dto.name,
     !.unique_field = IF dto.unique_field = Unset THEN @ ELSE dto.unique_field,
     !.deletedAt = IF dto.deletedAt = NoDate THEN @ ELSE dto.deletedAt]
SetAttributes(entity, dto) ==
  [entity EXCEPT
     !.name = IF dto.name = Unset THEN @ ELSE dto.name,
     !.unique_field = IF dto.unique_field = Unset THEN @ ELSE dto.unique_field]

\* instance.save(options): UPDATE <changed attributes> WHERE id = k; no query
\* at all when nothing changed since the load.
SaveError(tbl, k, before, after, blocked, fail) ==
  IF before = after THEN "none"
  ELSE IF fail \/ blocked THEN "DatabaseError"
  ELSE IF /\ tbl[k].exists
          /\ after.unique_field # before.unique_field
          /\ UniqueViolation(tbl, k, after.unique_field)
       THEN "UniqueConstraintError"
       ELSE "none"

SavedRow(row, before, after) ==
  [row EXCEPT
     !.name = IF after.name # before.name THEN after.name ELSE @,
     !.unique_field =
        IF after.unique_field # before.unique_field THEN after.unique_field ELSE @,
     !.deletedAt = IF after.deletedAt # before.deletedAt THEN after.deletedAt ELSE @]

\* (faulty variant Save_everyRow: the UPDATE without its WHERE id = k)
Save_everyRow(usetx, k, before, after) ==
  IF before = after \/ ~View(usetx)[k].exists
  THEN UNCHANGED <<db, txw, txTouched, purged>>
  ELSE IF usetx
       THEN /\ txw' = [j \in Keys |-> IF View(usetx)[j].exists
                                      THEN SavedRow(View(usetx)[j], before, after)
                                      ELSE View(usetx)[j]]
            /\ txTouched' = Keys
            /\ UNCHANGED <<db, purged>>
       ELSE /\ db' = [j \in Keys |-> IF db[j].exists THEN SavedRow(db[j], before, after)
                                    ELSE db[j]]
            /\ UNCHANGED <<txw, txTouched, purged>>

Save(usetx, k, before, after) ==
  IF before = after \/ ~View(usetx)[k].exists
  THEN UNCHANGED <<db, txw, txTouched, purged>>
  ELSE WriteRow(usetx, k, SavedRow(View(usetx)[k], before, after))

\* instance.destroy(options) of a paranoid model: without force it stamps
\* deletedAt, unless already set, and saves; with force it deletes the row.
Destroyed(entity, force) ==
  IF ~force /\ entity.deletedAt = NoDate THEN [entity EXCEPT !.deletedAt = now]
  ELSE entity

DestroyError(tbl, k, before, after, force, blocked, fail) ==
  IF force
  THEN IF fail \/ blocked THEN "DatabaseError" ELSE "none"
  ELSE SaveError(tbl, k, before, after, blocked, fail)

\* (faulty variant Destroy_physical: the row deleted whatever force says)
Destroy_physical(usetx, k, before, after, force) ==
  IF View(usetx)[k].exists
  THEN WriteRow(usetx, k, NoRow)
  ELSE UNCHANGED <<db, txw, txTouched, purged>>

Destroy(usetx, k, before, after, force) ==
  IF force
  THEN IF View(usetx)[k].exists
       THEN WriteRow(usetx, k, NoRow)
       ELSE UNCHANGED <<db, txw, txTouched, purged>>
  ELSE Save(usetx, k, before, after)

\* instance.restore(options): deletedAt back to its default, null, and save.
Restored(entity) == [entity EXCEPT !.deletedAt = NoDate]

\* ------------------------------------------------------------- updateByPk
\* const entity = await this.findByPk(primaryKey)
updateByPkFindOptions(usetx) == FindOptions(TRUE, FALSE)

updateByPkCall(k, dto, usetx, fail) ==
  /\ nops < MaxOps
  /\ usetx => TxOpen
  /\ LET load == findByPkCall(k, updateByPkFindOptions(usetx), fail = "load")
         before == load.entity
         after == SetAttributes(before, dto)
         e == SaveError(View(usetx), k, before, after,
                        Blocked(usetx, k, IF after.unique_field # before.unique_field
                                          THEN after.unique_field ELSE NULL),
                        fail = "persist")
         call == [NoCall EXCEPT !.op = "updateByPk", !.tx = usetx, !.pk = k,
                                !.loaded = before,
                                !.issued = load.issued]
     IN IF load.err # NoError
        THEN /\ last' = [call EXCEPT
                           !.failed = load.failed,
                           !.err = InternalServerErrorException("updateByPk"),
                           !.log = load.log \o <<LogEntry("updatedByPk", load.err.kind)>>]
             /\ UNCHANGED store
        ELSE IF ~before.found
        THEN /\ last' = [call EXCEPT !.dto = dto]
             /\ UNCHANGED store
        ELSE IF e # "none"
        THEN /\ last' = [call EXCEPT
                           !.issued = @ \o StoreCall("save"),
                           !.failed = e,
                           !.err = InternalServerErrorException("updateByPk"),
                           !.log = <<LogEntry("updatedByPk", e)>>]
             /\ UNCHANGED store
        ELSE /\ Save(usetx, k, before, after)
             /\ UNCHANGED usedKeys
             /\ last' = [call EXCEPT !.issued = @ \o StoreCall("save"),
                             !.dto = dto, !.entity = after]
  /\ nops' = nops + 1
  /\ txn' = NoteUnbound
  /\ UNCHANGED <<handles, autoGenerateId>>

\* ------------------------------------------------------------- deleteByPk
\* const entity = await this.findByPk(primaryKey, { paranoid: !options?.force })
\* (faulty variants deleteByPkFindOptions_paranoid: the filter kept under force;
\* deleteByPkFindOptions_all: no filter)
deleteByPkFindOptions_all(force, usetx) == FindOptions(FALSE, FALSE)
deleteByPkFindOptions_paranoid(force, usetx) == FindOptions(TRUE, FALSE)
deleteByPkFindOptions(force, usetx) == FindOptions(~force, FALSE)

\* if (options?.force && entity.getDataValue('deletedAt') !== undefined)
\*   entity.setDataValue('deletedAt', new Date())
deleteByPkMark(entity, force) ==
  IF force THEN [entity EXCEPT !.deletedAt = now] ELSE entity

deleteByPkCall(k, force, usetx, fail) ==
  /\ nops < MaxOps
  /\ usetx => TxOpen
  /\ LET load == findByPkCall(k, deleteByPkFindOptions(force, usetx), fail = "load")
         before == load.entity
         marked == deleteByPkMark(before, force)
         after == Destroyed(marked, force)
         e == DestroyError(View(usetx), k, before, after, force,
                           Blocked(usetx, k, NULL), fail = "persist")
         call == [NoCall EXCEPT !.op = "deleteByPk", !.tx = usetx, !.pk = k,
                                !.force = force, !.loaded = before,
                                !.issued = load.issued]
     IN IF load.err # NoError
        THEN /\ last' = [call EXCEPT
                           !.failed = load.failed,
                           !.err = InternalServerErrorException("deleteByPk"),
                           !.log = load.log \o <<LogEntry("deleteByPk", load.err.kind)>>]
             /\ UNCHANGED store
        ELSE IF ~before.found
        THEN /\ last' = call
             /\ UNCHANGED store
        ELSE IF e # "none"
        THEN /\ last' = [call EXCEPT
                           !.issued = @ \o StoreCall("destroy"),
                           !.failed = e,
                           !.err = InternalServerErrorException("deleteByPk"),
                           !.log = <<LogEntry("deleteByPk", e)>>]
             /\ UNCHANGED store
        ELSE /\ Destroy(usetx, k, before, after, force)
             /\ UNCHANGED usedKeys
             /\ last' = [call EXCEPT !.issued = @ \o StoreCall("destroy"),
                             !.entity = after]
  /\ nops' = nops + 1
  /\ txn' = NoteUnbound
  /\ UNCHANGED <<handles, autoGenerateId>>

\* ------------------------------------------------------------ restoreByPk
\* const entity = await this.findByPk(primaryKey, { ...options, paranoid: false })
\* (faulty variant restoreByPkFindOptions_paranoid: the filter kept)
restoreByPkFindOptions_paranoid(usetx) == FindOptions(TRUE, usetx)
restoreByPkFindOptions(usetx) == FindOptions(FALSE, usetx)

restoreByPkCall(k, usetx, fail) ==
  /\ nops < MaxOps
  /\ usetx => TxOpen
  /\ LET load == findByPkCall(k, restoreByPkFindOptions(usetx), fail = "load")
         before == load.entity
         after == Restored(before)
         e == SaveError(View(usetx), k, before, after,
                        Blocked(usetx, k, NULL), fail = "persist")
         call == [NoCall EXCEPT !.op = "restoreByPk", !.tx = usetx, !.pk = k,
                                !.loaded = before,
                                !.issued = load.issued]
     IN IF load.err # NoError
        THEN /\ last' = [call EXCEPT
                           !.failed = load.failed,
                           !.err = InternalServerErrorException("restoreByPk"),
                           !.log = load.log \o <<LogEntry("restoreByPk", load.err.kind)>>]
             /\ UNCHANGED store
        ELSE IF ~before.found
        THEN /\ last' = call
             /\ UNCHANGED store
        ELSE IF e # "none"
        THEN /\ last' = [call EXCEPT
                           !.issued = @ \o StoreCall("restore"),
                           !.failed = e,
                           !.err = InternalServerErrorException("restoreByPk"),
                           !.log = <<LogEntry("restoreByPk", e)>>]
             /\ UNCHANGED store
        ELSE /\ Save(usetx, k, before, after)
             /\ UNCHANGED usedKeys
             /\ last' = [call EXCEPT !.issued = @ \o StoreCall("restore"),
                             !.entity = after]
  /\ nops' = nops + 1
  /\ txn' = NoteUnbound
  /\ UNCHANGED <<handles, autoGenerateId>>

\* ------------------------------------------------------------- insertMany
\* Model.bulkCreate(dtos, options): one multi-row INSERT, in input order.
RECURSIVE BulkKeys(_, _)
BulkKeys(dtos, free) ==
  IF dtos = <<>> THEN <<>>
  ELSE IF Head(dtos).id # NoKey
       THEN <<Head(dtos).id>> \o BulkKeys(Tail(dtos), free)
       ELSE IF free = {} THEN <<NoKey>> \o BulkKeys(Tail(dtos), free)
            ELSE LET k == CHOOSE x \in free : \A y \in free : x <= y
                 IN <<k>> \o BulkKeys(Tail(dtos), free \ {k})

BulkCreateError(tbl, dtos, keys, blocked, fail) ==
  IF dtos = <<>> THEN "none"
  ELSE IF fail \/ blocked THEN "DatabaseError"
  ELSE IF \/ \E i \in 1..Len(dtos) :
              \/ tbl[keys[i]].exists
              \/ UniqueViolation(tbl, keys[i], dtos[i].unique_field)
          \/ \E i, j \in 1..Len(dtos) :
              /\ i < j
              /\ \/ keys[i] = keys[j]
                 \/ /\ dtos[i].unique_field # NULL
                    /\ dtos[i].unique_field = dtos[j].unique_field
       THEN "UniqueConstraintError"
       ELSE "none"

\* The multi-row INSERT is one statement: every row is stored or none is.
\* (faulty variant BulkInserted_partial: the rows before the rejected one stay)
BulkInserted_partial(keys, e) ==
  IF e = "none" THEN {keys[i] : i \in 1..Len(keys)}
  ELSE IF e = "UniqueConstraintError" THEN {keys[1]}
  ELSE {}
BulkInserted(keys, e) ==
  IF e = "none" THEN {keys[i] : i \in 1..Len(keys)} ELSE {}

insertManyCall(dtos, usetx, fail) ==
  /\ nops < MaxOps
  /\ usetx => TxOpen
  /\ LET ids == insertManyIds(dtos)
         keys == BulkKeys(identifiedDtos(dtos, ids), Keys \ usedKeys)
         rows == [i \in 1..Len(dtos) |->
                    Row(dtos[i].name, dtos[i].unique_field, dtos[i].deletedAt)]
         blocked == \E i \in 1..Len(dtos) : Blocked(usetx, keys[i], dtos[i].unique_field)
         e == BulkCreateError(View(usetx), dtos, keys, blocked, fail)
         call == [NoCall EXCEPT !.op = "insertMany", !.tx = usetx,
                                !.dtos = dtos, !.generated = ids,
                                !.issued = StoreCall("bulkCreate")]
         written == BulkInserted(keys, e)
         rowOf(k) == rows[CHOOSE i \in 1..Len(dtos) : keys[i] = k]
     IN /\ \A i \in 1..Len(dtos) : keys[i] # NoKey  \* else out of the bounds
        /\ \A i \in 1..Len(ids) : ids[i] # NoKey
        /\ IF usetx
           THEN /\ txw' = [k \in Keys |-> IF k \in written THEN rowOf(k) ELSE txw[k]]
                /\ txTouched' = txTouched \cup written
                /\ UNCHANGED <<db, purged>>
           ELSE /\ db' = [k \in Keys |-> IF k \in written THEN rowOf(k) ELSE db[k]]
                /\ UNCHANGED <<txw, txTouched, purged>>
        /\ usedKeys' = usedKeys \cup written
        /\ last' = IF e = "none"
                   THEN [call EXCEPT
                           !.rows = [i \in 1..Len(dtos) |-> Entity(keys[i], rows[i])],
                           !.count = Len(dtos)]
                   ELSE [call EXCEPT
                           !.failed = e,
                           !.err = InternalServerErrorException("insertMany"),
                           !.log = <<LogEntry("insertMany", e)>>]
  /\ nops' = nops + 1
  /\ txn' = NoteUnbound
  /\ UNCHANGED <<handles, autoGenerateId>>

\* ------------------------------------------------------------ transaction
\* catch (error) { logger.error(`transaction: ${error}`); throw new InternalServerErrorException() }
\* (faulty variant transactionCatch_rethrow: throw error)
transactionCatch_rethrow(error) == error
transactionCatch(error) == InternalServerErrorException("transaction")

\* return await runInTransaction(transaction)
transactionResult(value) == value

\* sequelize.transaction(autoCallback): COMMIT when the callback resolves,
\* ROLLBACK when it rejects.
\* (faulty variant ManagedEnd_commit: COMMIT either way)
ManagedEnd_commit(rejected) == "committed"
ManagedEnd(rejected) == IF rejected THEN "rolledback" ELSE "committed"

\* How many store transactions one transaction() call opens.
OpenedPerCall == 1

\* this.model.sequelize!.transaction(async (transaction) => { ... }): the
\* store opens a transaction and the callback starts with its handle.
transactionBegin ==
  /\ nops < MaxOps
  /\ ~TxOpen
  /\ handles' = handles + OpenedPerCall
  /\ UNCHANGED autoGenerateId
  /\ txn' = [NoTxn EXCEPT !.status = "open", !.handle = handles + 1,
                          !.calls = txn.calls + 1]
  /\ txw' = [k \in Keys |-> NoRow]
  /\ txTouched' = {}
  /\ nops' = nops + 1
  /\ last' = [NoCall EXCEPT !.op = "transactionBegin"]
  /\ UNCHANGED <<db, usedKeys, purged>>

\* The end of the callback and of transaction(): it resolved with `value`
\* (rejected = FALSE) or rejected with `error`.
transactionEnd(rejected, value, error) ==
  /\ TxOpen
  /\ LET end == ManagedEnd(rejected)
         surfaced == IF rejected THEN transactionCatch(error) ELSE NoError
         log == IF rejected THEN <<LogEntry("transaction", error.kind)>> ELSE <<>>
     IN /\ txn' = [txn EXCEPT
                     !.status = end,
                     !.raised = IF rejected THEN error ELSE NoError,
                     !.returned = IF rejected THEN NoValue ELSE value,
                     !.resolved = IF rejected THEN NoValue ELSE transactionResult(value),
                     !.err = surfaced, !.log = log, !.wrote = txTouched]
        /\ last' = [NoCall EXCEPT !.op = "transaction", !.err = surfaced, !.log = log]
        /\ IF end = "committed"
           THEN /\ db' = View(TRUE)
                /\ purged' = purged \cup
                     {k \in txTouched : db[k].exists /\ ~txw[k].exists}
           ELSE UNCHANGED <<db, purged>>
  /\ txw' = [k \in Keys |-> NoRow]
  /\ txTouched' = {}
  /\ UNCHANGED <<usedKeys, handles, nops, autoGenerateId>>

\* ------------------------------------------------------ the repository alone
\* Calls without a transaction handle. A store failure does not depend on
\* the arguments, so one argument list stands for all of them.
\* A read changes nothing but the record of the last call, so a call made
\* after a read leads where it leads from the state the read was made in:
\* runs are followed up to and including their first read.
Reads == {"findByPk", "findOne", "findAll", "findAllPaginated"}
Observed == last.op \in Reads

Failures == {"none", "load", "persist"}
AnyDto == CHOOSE d \in CreateDtos : TRUE
AnyUpdate == CHOOSE d \in UpdateDtos : TRUE

create ==
  /\ UNCHANGED <<pending, scan>>
  /\ ~Observed
  /\ \E dto \in CreateDtos, fail \in BOOLEAN :
       /\ fail => dto = AnyDto
       /\ createCall("create", dto, FALSE, fail)

\* insert(dto, options) { return this.create(dto, options) }
insert ==
  /\ UNCHANGED <<pending, scan>>
  /\ ~Observed
  /\ \E dto \in {d \in CreateDtos : d.id = NoKey /\ d.name = "a"}, fail \in BOOLEAN :
       /\ fail => dto = [AnyDto EXCEPT !.id = NoKey, !.name = "a"]
       /\ createCall("insert", dto, FALSE, fail)

insertMany ==
  /\ UNCHANGED <<pending, scan>>
  /\ ~Observed
  /\ \E dtos \in Batches, fail \in BOOLEAN :
       /\ fail => dtos = <<BatchDto(NULL)>>
       /\ insertManyCall(dtos, FALSE, fail)

findByPk ==
  /\ UNCHANGED <<pending, scan>>
  /\ ~Observed
  /\ \E k \in Keys, paranoid \in BOOLEAN, fail \in BOOLEAN :
       /\ fail => k = 1 /\ paranoid
       /\ findByPkAction(k, paranoid, FALSE, fail)

findOne ==
  /\ UNCHANGED <<pending, scan>>
  /\ ~Observed
  /\ \E query \in Queries, paranoid \in BOOLEAN, fail \in BOOLEAN :
       /\ fail => query = "all" /\ paranoid
       /\ findOneAction(query, paranoid, FALSE, fail)

findAll ==
  /\ UNCHANGED <<pending, scan>>
  /\ ~Observed
  /\ \E query \in Queries, paranoid \in BOOLEAN, fail \in BOOLEAN :
       /\ fail => query = "all" /\ paranoid
       /\ findAllAction(query, paranoid, FALSE, fail)

findAllPaginated ==
  /\ UNCHANGED <<pending, scan>>
  /\ ~Observed
  /\ \E limit \in {Omitted, 1}, offset \in {Omitted, 1}, fail \in BOOLEAN :
       /\ fail => limit = Omitted /\ offset = Omitted
       /\ findAllPaginatedAction(limit, offset, Omitted, "all", FALSE, fail)

updateByPk ==
  /\ UNCHANGED <<pending, scan>>
  /\ ~Observed
  /\ \E k \in Keys, dto \in UpdateDtos, fail \in Failures :
       /\ fail # "none" => dto = AnyUpdate
       /\ updateByPkCall(k, dto, FALSE, fail)

deleteByPk ==
  /\ UNCHANGED <<pending, scan>>
  /\ ~Observed
  /\ \E k \in Keys, force \in BOOLEAN, fail \in Failures :
       deleteByPkCall(k, force, FALSE, fail)

restoreByPk ==
  /\ UNCHANGED <<pending, scan>>
  /\ ~Observed
  /\ \E k \in Keys, fail \in Failures :
       restoreByPkCall(k, FALSE, fail)

Next ==
  \/ create
  \/ insert
  \/ insertMany
  \/ findByPk
  \/ findOne
  \/ findAll
  \/ findAllPaginated
  \/ updateByPk
  \/ deleteByPk
  \/ restoreByPk

Spec == Init /\ [][Next]_vars

\* ------------------------------------------------- with a managed transaction
\* One transaction() call at a time; its callback makes repository calls with
\* or without the handle, then resolves or rejects. Calls before and after it
\* have no handle to pass.
TxCreateDtos == {d \in CreateDtos : d.name = "a" /\ d.deletedAt = NoDate}
TxUpdateDtos == {d \in UpdateDtos : d.name = "b" /\ d.unique_field = Unset}

transaction == ~Observed /\ transactionBegin /\ UNCHANGED <<pending, scan>>

callbackReturn ==
  /\ UNCHANGED <<pending, scan>>
  /\ ~Observed
  /\ \E value \in ReturnValues : transactionEnd(FALSE, value, NoError)

callbackRaise ==
  /\ UNCHANGED <<pending, scan>>
  /\ ~Observed
  /\ \E error \in CallbackErrors : transactionEnd(TRUE, NoValue, error)

createIn ==
  /\ UNCHANGED <<pending, scan>>
  /\ ~Observed
  /\ \E dto \in TxCreateDtos, usetx \in BOOLEAN :
       createCall("create", dto, usetx, FALSE)

updateByPkIn ==
  /\ UNCHANGED <<pending, scan>>
  /\ ~Observed
  /\ \E k \in Keys, dto \in TxUpdateDtos, usetx \in BOOLEAN :
       updateByPkCall(k, dto, usetx, "none")

deleteByPkIn ==
  /\ UNCHANGED <<pending, scan>>
  /\ ~Observed
  /\ \E k \in Keys, force \in BOOLEAN, usetx \in BOOLEAN :
       deleteByPkCall(k, force, usetx, "none")

restoreByPkIn ==
  /\ UNCHANGED <<pending, scan>>
  /\ ~Observed
  /\ \E k \in Keys, usetx \in BOOLEAN : restoreByPkCall(k, usetx, "none")

findByPkIn ==
  /\ UNCHANGED <<pending, scan>>
  /\ ~Observed
  /\ \E k \in Keys, paranoid \in BOOLEAN, usetx \in BOOLEAN :
       findByPkAction(k, paranoid, usetx, FALSE)

NextTx ==
  \/ transaction
  \/ callbackReturn
  \/ callbackRaise
  \/ createIn
  \/ updateByPkIn
  \/ deleteByPkIn
  \/ restoreByPkIn
  \/ findByPkIn

SpecTx == Init /\ [][NextTx]_vars
\* ------------------------------------------------------------- pagination
\* return limit * (page - 1)
calculateOffset_limitTimesPage(limit, page) == limit * page
calculateOffset(limit, page) == limit * (page - 1)

\* calculateOffset(limit, page)
calculateOffsetCall(limit, page) ==
  /\ last' = [NoCall EXCEPT !.op = "calculateOffset", !.limit = limit, !.page = page,
                            !.value = calculateOffset(limit, page)]
  /\ UNCHANGED <<store, txn, handles, nops, autoGenerateId>>

\* A few rows, then one paginated read, findAll or calculateOffset.
MaxLimit == 3
MaxOffset == 3
MaxPage == 3
Answered == Observed \/ last.op = "calculateOffset"

createRows ==
  /\ UNCHANGED <<pending, scan>>
  /\ ~Answered
  /\ \E dto \in {d \in CreateDtos : d.id = NoKey /\ d.unique_field = NULL} :
       createCall("create", dto, FALSE, FALSE)

findAllRows ==
  /\ UNCHANGED <<pending, scan>>
  /\ ~Answered
  /\ \E query \in Queries : findAllAction(query, TRUE, FALSE, FALSE)

findAllPaginatedRows ==
  /\ UNCHANGED <<pending, scan>>
  /\ ~Answered
  /\ \E limit \in {Omitted} \cup 0..MaxLimit, offset \in {Omitted} \cup 0..MaxOffset,
        page \in {Omitted} \cup 1..MaxPage, query \in Queries :
       findAllPaginatedAction(limit, offset, page, query, FALSE, FALSE)

calculateOffsetAny ==
  /\ UNCHANGED <<pending, scan>>
  /\ ~Answered
  /\ \E limit \in (-MaxLimit..MaxLimit) \cup {DefaultLimit}, page \in -MaxPage..MaxPage :
       calculateOffsetCall(limit, page)

NextPage ==
  \/ createRows
  \/ findAllRows
  \/ findAllPaginatedRows
  \/ calculateOffsetAny

SpecPage == Init /\ [][NextPage]_vars

\* ---------------------------------------------------------- id generation
\* A repository constructed with or without autoGenerateId; create and
\* insertMany with and without the primary key in the attribute sets.
RepositoryOptions == [autoGenerateId : BOOLEAN]

InitGen == \E options \in RepositoryOptions : Constructed(options)

GenBatches ==
  UNION {[1..n -> {[BatchDto(uf) EXCEPT !.id = k] : uf \in UniqueValues, k \in {NoKey} \cup Keys}]
           : n \in 0..MaxBatch}

createGen ==
  /\ UNCHANGED <<pending, scan>>
  /\ ~Observed
  /\ \E dto \in {d \in CreateDtos : d.deletedAt = NoDate} :
       createCall("create", dto, FALSE, FALSE)

insertManyGen ==
  /\ UNCHANGED <<pending, scan>>
  /\ ~Observed
  /\ \E dtos \in GenBatches : insertManyCall(dtos, FALSE, FALSE)

findAllGen ==
  /\ UNCHANGED <<pending, scan>>
  /\ ~Observed
  /\ findAllAction("all", TRUE, FALSE, FALSE)

NextGen ==
  \/ createGen
  \/ insertManyGen
  \/ findAllGen

SpecGen == InitGen /\ [][NextGen]_vars

\* ------------------------------------------------------------- updateByPk
\* Partial<Attributes<TModel>>: any attribute may be named, the primary key
\* and deletedAt included (NoKey, NoDate: not named).
PartialAttributes ==
  [id : {NoKey} \cup Keys, name : Names \cup {Unset},
   unique_field : UniqueValues \cup {Unset}, deletedAt : {NoDate, now}]

createLive ==
  /\ UNCHANGED <<pending, scan>>
  /\ ~Observed
  /\ \E dto \in {d \in CreateDtos : d.id = NoKey /\ d.name = "a"} :
       createCall("create", dto, FALSE, FALSE)

updateByPkPartial ==
  /\ UNCHANGED <<pending, scan>>
  /\ ~Observed
  /\ \E k \in Keys, dto \in PartialAttributes : updateByPkCall(k, dto, FALSE, "none")

findByPkUpdated ==
  /\ UNCHANGED <<pending, scan>>
  /\ ~Observed
  /\ \E k \in Keys : findByPkAction(k, TRUE, FALSE, FALSE)

NextUpdate ==
  \/ createLive
  \/ updateByPkPartial
  \/ findByPkUpdated

SpecUpdate == Init /\ [][NextUpdate]_vars

\* ------------------------------------------------------------------ reads
\* Reads with the options a caller can pass: paranoid and rejectOnEmpty.
ReadOptions ==
  {RejectOnEmpty(FindOptions(paranoid, FALSE), reject) : paranoid, reject \in BOOLEAN}

createFound ==
  /\ UNCHANGED <<pending, scan>>
  /\ ~Observed
  /\ \E dto \in {d \in CreateDtos : d.id = NoKey /\ d.unique_field = NULL} :
       createCall("create", dto, FALSE, FALSE)

findByPkOptions ==
  /\ UNCHANGED <<pending, scan>>
  /\ ~Observed
  /\ \E k \in Keys, options \in ReadOptions : findByPkWith(k, options, FALSE)

findOneOptions ==
  /\ UNCHANGED <<pending, scan>>
  /\ ~Observed
  /\ \E query \in Queries, options \in ReadOptions : findOneWith(query, options, FALSE)

findAllOptions ==
  /\ UNCHANGED <<pending, scan>>
  /\ ~Observed
  /\ \E query \in Queries, options \in ReadOptions : findAllWith(query, options, FALSE)

NextFind ==
  \/ createFound
  \/ findByPkOptions
  \/ findOneOptions
  \/ findAllOptions

SpecFind == Init /\ [][NextFind]_vars

\* ------------------------------------------------------------ constructor
\* new target(model, options): target is AbstractRepository itself or a class
\* extending it.
Targets == {"AbstractRepository", "UserRepository"}

\* throw new Error('AbstractRepository cannot be instantiated directly')
DirectInstantiation ==
  [kind |-> "Error: AbstractRepository cannot be instantiated directly",
   at |-> "constructor"]

\* if (new.target === AbstractRepository) { throw ... }
\* (faulty variant constructorCheck_none: no check)
constructorCheck_none(target) == NoError
constructorCheck(target) ==
  IF target = "AbstractRepository" THEN DirectInstantiation ELSE NoError

\* No repository object yet.
NotConstructed == [NoCall EXCEPT !.op = "new"]
Built == last # NotConstructed /\ ~(last.op = "constructor" /\ last.err # NoError)

InitNew ==
  /\ db = [k \in Keys |-> NoRow]
  /\ txw = [k \in Keys |-> NoRow]
  /\ txTouched = {}
  /\ txn = NoTxn
  /\ usedKeys = {}
  /\ purged = {}
  /\ handles = 0
  /\ nops = 0
  /\ autoGenerateId = DefaultOptions.autoGenerateId
  /\ pending = NonePending
  /\ scan = NoScan
  /\ last = NotConstructed

\* constructor(model, options = {})
constructor ==
  /\ UNCHANGED <<pending, scan>>
  /\ ~Built
  /\ \E target \in Targets, options \in RepositoryOptions :
       LET error == constructorCheck(target)
       IN /\ last' = [NoCall EXCEPT !.op = "constructor", !.target = target,
                                    !.err = error]
          /\ autoGenerateId' = IF error = NoError THEN options.autoGenerateId
                               ELSE autoGenerateId
  /\ UNCHANGED <<store, txn, handles, nops>>

createBuilt ==
  /\ UNCHANGED <<pending, scan>>
  /\ Built /\ ~Observed
  /\ \E dto \in {d \in CreateDtos : d.deletedAt = NoDate} :
       createCall("create", dto, FALSE, FALSE)

findAllBuilt ==
  /\ UNCHANGED <<pending, scan>>
  /\ Built /\ ~Observed
  /\ \E query \in Queries, paranoid \in BOOLEAN : findAllAction(query, paranoid, FALSE, FALSE)

NextNew ==
  \/ constructor
  \/ createBuilt
  \/ findAllBuilt

SpecNew == InitNew /\ [][NextNew]_vars

\* ------------------------------------------------------- concurrent calls
\* updateByPk, deleteByPk and restoreByPk are async: `await this.findByPk(..)`
\* and `await entity.save/destroy/restore(..)` are two store calls, and calls
\* of other tasks may run between them. Each task makes one call.

\* The table some creates and soft deletes left behind.
StoredRows == {NoRow, Row("a", NULL, NoDate), Row("a", NULL, 1)}

InitConc ==
  /\ db \in [Keys -> StoredRows]
  /\ txw = [k \in Keys |-> NoRow]
  /\ txTouched = {}
  /\ txn = NoTxn
  /\ usedKeys = {k \in Keys : db[k].exists}
  /\ purged = {}
  /\ handles = 0
  /\ nops = 0
  /\ autoGenerateId = DefaultOptions.autoGenerateId
  /\ pending = NonePending
  /\ scan = NoScan
  /\ last = NoCall

\* The find options of the load of each method.
loadOptions(op, force) ==
  CASE op = "updateByPk" -> updateByPkFindOptions(FALSE)
    [] op = "deleteByPk" -> deleteByPkFindOptions(force, FALSE)
    [] op = "restoreByPk" -> restoreByPkFindOptions(FALSE)

\* `const entity`: a local variable of the call.
\* (faulty variants: loadedEntity_shared, one field of the repository for all calls;
\* loadedEntity_reloaded, the row as it is at the persist step)
loadedEntity_shared(t) == pending[1].entity
loadedEntity_reloaded(t) ==
  ModelFindByPk(db, pending[t].pk, loadOptions(pending[t].op, pending[t].force).paranoid)
loadedEntity(t) == pending[t].entity

\* The record of the call of task t, as the method fills it.
callOf(c) ==
  [NoCall EXCEPT !.op = c.op, !.pk = c.pk, !.force = c.force, !.loaded = c.entity,
                 !.issued = StoreCall("findByPk")]

\* const entity = await this.findByPk(primaryKey, ..); if (!entity) return null
loadStep(t, keys) ==
  /\ pending[t].pc = "idle"
  /\ nops < MaxOps
  /\ \E op \in {"updateByPk", "deleteByPk", "restoreByPk"}, k \in keys,
        force \in BOOLEAN, name \in Names :
       LET dto == IF op = "updateByPk" THEN [NoDto EXCEPT !.name = name] ELSE NoDto
           found == findByPkCall(k, loadOptions(op, force), FALSE).entity
           c == [Idle EXCEPT !.op = op, !.pk = k, !.dto = dto, !.entity = found,
                             !.force = (force /\ op = "deleteByPk")]
           result == [callOf(c) EXCEPT !.dto = dto]
       IN /\ force => op = "deleteByPk"
          /\ name = "b" \/ op = "updateByPk"
          /\ IF found.found
             THEN /\ pending' = [pending EXCEPT ![t] = [c EXCEPT !.pc = "loaded"]]
                  /\ UNCHANGED <<last, nops>>
             ELSE /\ pending' = [pending EXCEPT
                                   ![t] = [c EXCEPT !.pc = "done", !.result = result]]
                  /\ last' = result
                  /\ nops' = nops + 1
  /\ UNCHANGED <<store, txn, handles, autoGenerateId>>

\* entity.set(dto); return await entity.save(options)
\* entity.destroy(options) / entity.restore(options); return entity
persistStep(t) ==
  /\ pending[t].pc = "loaded"
  /\ LET c == pending[t]
         before == loadedEntity(t)
         after == CASE c.op = "updateByPk" -> SetAttributes(before, c.dto)
                    [] c.op = "deleteByPk" ->
                         Destroyed(deleteByPkMark(before, c.force), c.force)
                    [] c.op = "restoreByPk" -> Restored(before)
         e == IF c.op = "deleteByPk"
              THEN DestroyError(db, c.pk, before, after, c.force, FALSE, FALSE)
              ELSE SaveError(db, c.pk, before, after, FALSE, FALSE)
         call == [callOf(c) EXCEPT
                    !.loaded = before,
                    !.issued = @ \o StoreCall(CASE c.op = "updateByPk" -> "save"
                                                [] c.op = "deleteByPk" -> "destroy"
                                                [] c.op = "restoreByPk" -> "restore")]
         result ==
           IF e # "none"
           THEN [call EXCEPT !.failed = e,
                             !.err = InternalServerErrorException(c.op),
                             !.log = <<LogEntry(IF c.op = "updateByPk" THEN "updatedByPk"
                                                ELSE c.op, e)>>]
           ELSE [call EXCEPT !.dto = c.dto, !.entity = after]
     IN /\ IF e # "none" THEN UNCHANGED <<db, txw, txTouched, purged>>
           ELSE IF c.op = "deleteByPk"
                THEN Destroy(FALSE, c.pk, before, after, c.force)
                ELSE Save(FALSE, c.pk, before, after)
        /\ pending' = [pending EXCEPT ![t] = [c EXCEPT !.pc = "done", !.result = result]]
        /\ last' = result
  /\ nops' = nops + 1
  /\ UNCHANGED <<usedKeys, txn, handles, autoGenerateId>>

\* Keys no other call is or was made on.
KeysOfOthers(t) == {pending[u].pk : u \in Tasks \ {t}}

\* The calls are made without a transaction.
loadOwnKey ==
  /\ UNCHANGED scan
  /\ ~TxOpen
  /\ \E t \in Tasks : loadStep(t, Keys \ KeysOfOthers(t))

loadAnyKey ==
  /\ UNCHANGED scan
  /\ ~TxOpen
  /\ \E t \in Tasks : loadStep(t, Keys)

persist ==
  /\ UNCHANGED scan
  /\ ~TxOpen
  /\ \E t \in Tasks : persistStep(t)

NextDistinct ==
  \/ loadOwnKey
  \/ persist

NextSameKey ==
  \/ loadAnyKey
  \/ persist

SpecDistinct == InitConc /\ [][NextDistinct]_vars
SpecSameKey == InitConc /\ [][NextSameKey]_vars

\* ------------------------------------------------------------- every call
\* Every operation, with and without the transaction handle, with the store
\* answering or failing at each of its store calls.
createOnce ==
  /\ UNCHANGED <<pending, scan>>
  /\ ~Observed
  /\ \E dto \in TxCreateDtos, usetx \in BOOLEAN, fail \in BOOLEAN :
       /\ fail => dto = CHOOSE d \in TxCreateDtos : TRUE
       /\ createCall("create", dto, usetx, fail)

insertManyOnce ==
  /\ UNCHANGED <<pending, scan>>
  /\ ~Observed
  /\ \E dtos \in {<<BatchDto(NULL)>>, <<BatchDto("u"), BatchDto("u")>>}, fail \in BOOLEAN :
       /\ fail => dtos = <<BatchDto(NULL)>>
       /\ insertManyCall(dtos, FALSE, fail)

findByPkOnce ==
  /\ UNCHANGED <<pending, scan>>
  /\ ~Observed
  /\ \E k \in Keys, fail \in BOOLEAN : findByPkAction(k, TRUE, FALSE, fail)

findOneOnce ==
  /\ UNCHANGED <<pending, scan>>
  /\ ~Observed
  /\ \E fail \in BOOLEAN : findOneAction("all", TRUE, FALSE, fail)

findAllOnce ==
  /\ UNCHANGED <<pending, scan>>
  /\ ~Observed
  /\ \E fail \in BOOLEAN : findAllAction("all", TRUE, FALSE, fail)

findAllPaginatedOnce ==
  /\ UNCHANGED <<pending, scan>>
  /\ ~Observed
  /\ \E fail \in BOOLEAN : findAllPaginatedAction(Omitted, Omitted, Omitted, "all", FALSE, fail)

updateByPkOnce ==
  /\ UNCHANGED <<pending, scan>>
  /\ ~Observed
  /\ \E k \in Keys, dto \in TxUpdateDtos, usetx \in BOOLEAN, fail \in Failures :
       updateByPkCall(k, dto, usetx, fail)

deleteByPkOnce ==
  /\ UNCHANGED <<pending, scan>>
  /\ ~Observed
  /\ \E k \in Keys, force \in BOOLEAN, fail \in Failures :
       deleteByPkCall(k, force, FALSE, fail)

restoreByPkOnce ==
  /\ UNCHANGED <<pending, scan>>
  /\ ~Observed
  /\ \E k \in Keys, fail \in Failures : restoreByPkCall(k, FALSE, fail)

NextOnce ==
  \/ transaction
  \/ callbackReturn
  \/ callbackRaise
  \/ createOnce
  \/ insertManyOnce
  \/ findByPkOnce
  \/ findOneOnce
  \/ findAllOnce
  \/ findAllPaginatedOnce
  \/ updateByPkOnce
  \/ deleteByPkOnce
  \/ restoreByPkOnce

SpecOnce == Init /\ [][NextOnce]_vars

\* ------------------------------------------------------- paging through
\* A caller reads page 1, 2, .. of findAllPaginated with one limit and one
\* predicate, offset = calculateOffset(limit, page), until the count of the
\* last page says there is no further page. Every request is a query of its
\* own: the repository keeps nothing between two of them, and other calls may
\* run in between.
ScanRows == StoredRows \cup {Row("b", NULL, NoDate)}

InitScan ==
  /\ db \in [Keys -> ScanRows]
  /\ txw = [k \in Keys |-> NoRow]
  /\ txTouched = {}
  /\ txn = NoTxn
  /\ usedKeys = {k \in Keys : db[k].exists}
  /\ purged = {}
  /\ handles = 0
  /\ nops = 0
  /\ autoGenerateId = DefaultOptions.autoGenerateId
  /\ pending = NonePending
  /\ scan = NoScan
  /\ last = NoCall

\* Number of pages of `count` rows: ceil(count / limit).
Pages(count, limit) == (count + limit - 1) \div limit

\* The keys the WHERE of findAndCountAll selects.
MatchingKeys(tbl, query) ==
  {k \in Keys : Visible(tbl[k], TRUE) /\ Matches(tbl[k], query)}

\* The caller takes the page returned by `call`, made on the table `tbl`.
receivePage(sc, limit, query, call, tbl) ==
  IF call.failed # "none" THEN [sc EXCEPT !.status = "failed"]
  ELSE [status |-> IF sc.next + 1 > Pages(call.count, limit) THEN "complete" ELSE "open",
        limit |-> limit, query |-> query, next |-> sc.next + 1,
        seen |-> sc.seen \o [i \in 1..Len(call.rows) |-> call.rows[i].id],
        counts |-> Append(sc.counts, call.count),
        stable |-> IF sc.status = "none" THEN MatchingKeys(tbl, query)
                   ELSE sc.stable \cap MatchingKeys(tbl, query),
        changed |-> sc.changed]

\* Another call ran; it changed the table between two page requests or not.
noteWrite(sc) ==
  [sc EXCEPT !.changed = @ \/ (sc.status = "open" /\ db' # db)]

findAllPaginatedPage ==
  /\ UNCHANGED pending
  /\ scan.status \in {"none", "open"}
  /\ \E limit \in 1..MaxLimit, query \in Queries, fail \in BOOLEAN :
       /\ scan.status = "open" => limit = scan.limit /\ query = scan.query
       /\ fail => limit = 1 /\ query = "all"
       /\ findAllPaginatedAction(limit, calculateOffset(limit, scan.next), scan.next,
                                 query, FALSE, fail)
       /\ scan' = receivePage(scan, limit, query, last', db)

createBetween ==
  /\ UNCHANGED pending
  /\ \E name \in Names :
       createCall("create", [id |-> NoKey, name |-> name, unique_field |-> NULL,
                             deletedAt |-> NoDate], FALSE, FALSE)
  /\ scan' = noteWrite(scan)

updateByPkBetween ==
  /\ UNCHANGED pending
  /\ \E k \in Keys, dto \in {d \in UpdateDtos : d.name # Unset /\ d.unique_field = Unset} :
       updateByPkCall(k, dto, FALSE, "none")
  /\ scan' = noteWrite(scan)

deleteByPkBetween ==
  /\ UNCHANGED pending
  /\ \E k \in Keys, force \in BOOLEAN : deleteByPkCall(k, force, FALSE, "none")
  /\ scan' = noteWrite(scan)

restoreByPkBetween ==
  /\ UNCHANGED pending
  /\ \E k \in Keys : restoreByPkCall(k, FALSE, "none")
  /\ scan' = noteWrite(scan)

NextScan ==
  \/ findAllPaginatedPage
  \/ createBetween
  \/ updateByPkBetween
  \/ deleteByPkBetween
  \/ restoreByPkBetween

SpecScan == InitScan /\ [][NextScan]_vars

\* ------------------------------------------------------ a stored table
\* Reads, calculateOffset and the calls by primary key on a table that holds
\* entities already.
NextStored ==
  \/ findByPk
  \/ findOne
  \/ findAll
  \/ findAllPaginated
  \/ calculateOffsetAny
  \/ updateByPk
  \/ deleteByPk
  \/ restoreByPk

SpecStored == InitConc /\ [][NextStored]_vars

\* ------------------------------------------------------------- properties
Ok(call) == call.err = NoError
Range(seq) == {seq[i] : i \in 1..Len(seq)}
Live(row) == row.exists /\ row.deletedAt = NoDate
SoftDeleted(row) == row.exists /\ row.deletedAt # NoDate
Answers(query, k) == query = "name=a" => db[k].name = "a"
LiveEntities(query) ==
  {Entity(k, db[k]) : k \in {j \in Keys : Live(db[j]) /\ Answers(query, j)}}

\* C1: whatever calls came before, a default read returns exactly the rows
\* whose deletedAt is null (findByPk: the row or null; findAll: all of them;
\* findOne: one of them; findAllPaginated: a page of them and their count); a
\* soft deleteByPk returns the entity with deletedAt set, the row stays in
\* the table with that timestamp, and findByPk with paranoid:false returns it.
C1_DefaultReadsSeeLive ==
  /\ (last.op = "findByPk" /\ Ok(last)) =>
       last.entity =
         IF Live(db[last.pk]) \/ (~last.paranoid /\ db[last.pk].exists)
         THEN Entity(last.pk, db[last.pk]) ELSE NullEntity
  /\ (last.op = "findAll" /\ last.paranoid /\ Ok(last)) =>
       /\ Range(last.rows) = LiveEntities(last.query)
       /\ Len(last.rows) = Cardinality(LiveEntities(last.query))
  /\ (last.op = "findOne" /\ last.paranoid /\ Ok(last)) =>
       IF LiveEntities(last.query) = {} THEN ~last.entity.found
       ELSE last.entity \in LiveEntities(last.query)
  /\ (last.op = "findAllPaginated" /\ Ok(last)) =>
       /\ Range(last.rows) \subseteq LiveEntities(last.query)
       /\ last.count = Cardinality(LiveEntities(last.query))
       /\ (last.limit = Omitted /\ last.offset = Omitted) =>
            Range(last.rows) = LiveEntities(last.query)
  /\ (last.op = "deleteByPk" /\ ~last.force /\ Ok(last) /\ last.entity.found) =>
       /\ last.entity.deletedAt # NoDate
       /\ SoftDeleted(db[last.pk])
       /\ last.entity = Entity(last.pk, db[last.pk])

\* A default findAll that returned the one live row and left a soft-deleted one out.
C1_Witness ==
  /\ last.op = "findAll" /\ last.paranoid /\ Ok(last) /\ last.query = "all"
  /\ Len(last.rows) = 1
  /\ \E k \in Keys : SoftDeleted(db[k])

\* C2: deleteByPk with force:true on a row that exists, live or soft-deleted,
\* returns it with a non-null deletedAt and otherwise as stored, and removes
\* the row; findByPk of a key without a row returns null under every option.
C2_ForceDeletePurges ==
  [][/\ (last'.op = "deleteByPk" /\ last'.force /\ Ok(last') /\ db[last'.pk].exists) =>
          /\ last'.entity.found
          /\ last'.entity.deletedAt # NoDate
          /\ last'.entity =
               [Entity(last'.pk, db[last'.pk]) EXCEPT !.deletedAt = last'.entity.deletedAt]
          /\ ~db'[last'.pk].exists
     /\ (last'.op = "findByPk" /\ Ok(last') /\ ~db[last'.pk].exists) =>
          ~last'.entity.found
    ]_vars

\* A force delete that loaded an already soft-deleted row and removed it.
C2_Witness ==
  /\ last.op = "deleteByPk" /\ last.force /\ Ok(last)
  /\ last.loaded.found /\ last.loaded.deletedAt # NoDate
  /\ last.entity.deletedAt # NoDate
  /\ ~db[last.pk].exists

Life(tbl, gone, k) ==
  IF tbl[k].exists
  THEN IF tbl[k].deletedAt = NoDate THEN "live" ELSE "soft-deleted"
  ELSE IF k \in gone THEN "purged" ELSE "non-existent"

Mutations == {"updateByPk", "deleteByPk", "restoreByPk"}
Writes == {"create", "insert", "insertMany"} \cup Mutations

LoadParanoid(call) ==
  CASE call.op = "updateByPk" -> TRUE
    [] call.op = "deleteByPk" -> ~call.force
    [] call.op = "restoreByPk" -> FALSE

\* C7 as stated: the load of updateByPk, deleteByPk and restoreByPk given the
\* handle sees what the transaction sees: its own writes over the committed
\* table; so a row created through the handle is found.
C7_Original ==
  [][(last'.tx /\ last'.op \in Mutations /\ Ok(last')) =>
        last'.loaded =
          IF /\ View(TRUE)[last'.pk].exists
             /\ LoadParanoid(last') => View(TRUE)[last'.pk].deletedAt = NoDate
          THEN Entity(last'.pk, View(TRUE)[last'.pk])
          ELSE NullEntity
    ]_vars

SameAttributes(entity, dto) ==
  /\ entity.name = dto.name
  /\ entity.unique_field = dto.unique_field
  /\ entity.deletedAt = dto.deletedAt
  /\ dto.id # NoKey => entity.id = dto.id

ConflictKinds == {"ConflictException", "ForbiddenException"}

\* C10 as stated: a create whose unique_field value another row already
\* holds fails with a Conflict error, not the generic operation-failed one.
C10_Original ==
  (/\ last.op \in {"create", "insert"} /\ ~Ok(last)
   /\ last.dto.unique_field \in UniqueValues \ {NULL}
   /\ \E k \in Keys \ {last.dto.id} :
        db[k].exists /\ db[k].unique_field = last.dto.unique_field) =>
     /\ last.err.kind \in ConflictKinds
     /\ last.err.kind # createCatch("DatabaseError").kind

StoreCalls ==
  {"create", "insert", "insertMany", "findByPk", "findOne", "findAll",
   "findAllPaginated", "updateByPk", "deleteByPk", "restoreByPk"}

\* C11: when the store call of a public operation fails, the call rejects:
\* it carries an error, the generic InternalServerErrorException when the
\* failure is no uniqueness violation, the store's error is in the log, and
\* no entity, row list or count is returned.
C11_FailuresSurface ==
  last.failed # "none" =>
    /\ last.op \in StoreCalls
    /\ ~Ok(last)
    /\ last.failed = "DatabaseError" => last.err.kind = "InternalServerErrorException"
    /\ \E i \in 1..Len(last.log) : last.log[i].error = last.failed
    /\ ~last.entity.found
    /\ last.rows = <<>>
    /\ last.count = 0

\* A deleteByPk that loaded its entity and whose destroy the store failed.
C11_Witness ==
  /\ last.op = "deleteByPk" /\ last.loaded.found
  /\ last.failed = "DatabaseError"
  /\ last.err.kind = "InternalServerErrorException"
  /\ Len(last.log) = 1

\* C12 as stated: the log entry a failing operation writes carries the name
\* of that operation.
C12_Original ==
  last.log # <<>> => last.log[Len(last.log)].prefix = last.op

Max(a, b) == IF a >= b THEN a ELSE b

\* C13: findAllPaginated returns as count the number N of live rows matching
\* the predicate, whatever limit and offset, and min(limit, max(0, N - offset))
\* rows, all of them live rows matching the predicate; findAll with that
\* predicate returns N rows.
C13_CountIsFullMatch ==
  /\ (last.op = "findAllPaginated" /\ Ok(last)) =>
       LET N == Cardinality(LiveEntities(last.query))
           limit == IF last.limit = Omitted THEN DefaultLimit ELSE last.limit
           offset == IF last.offset = Omitted THEN DefaultOffset ELSE last.offset
       IN /\ last.count = N
          /\ Len(last.rows) = Min(limit, Max(0, N - offset))
          /\ Range(last.rows) \subseteq LiveEntities(last.query)
          /\ Cardinality(Range(last.rows)) = Len(last.rows)
  /\ (last.op = "findAll" /\ last.paranoid /\ Ok(last)) =>
       Len(last.rows) = Cardinality(LiveEntities(last.query))

\* limit 1, offset 0 over two matching rows: one row, count 2.
C13_Witness ==
  /\ last.op = "findAllPaginated" /\ Ok(last)
  /\ last.limit = 1 /\ last.offset = 0
  /\ Len(last.rows) = 1 /\ last.count = 2

\* C14 as stated: with a page given and the offset omitted the store is
\* queried with offset = limit * (page - 1).
C14_Original ==
  (/\ last.op = "findAllPaginated" /\ Ok(last)
   /\ last.page # Omitted /\ last.offset = Omitted) =>
     last.storeOffset = last.storeLimit * (last.page - 1)

\* C14 amended: the store is queried with the given limit, 10 when omitted,
\* and the given offset, 0 when omitted, whether or not a page is given; the
\* rows returned are that slice of the matching live rows.
C14_LimitAndOffsetOnly ==
  (last.op = "findAllPaginated" /\ Ok(last)) =>
    /\ last.storeLimit = IF last.limit = Omitted THEN 10 ELSE last.limit
    /\ last.storeOffset = IF last.offset = Omitted THEN 0 ELSE last.offset
    /\ LET found == ScanOrder({k \in Keys : Live(db[k]) /\ Answers(last.query, k)})
       IN last.rows =
            [i \in 1..Max(0, Min(last.storeLimit, Len(found) - last.storeOffset)) |->
               Entity(found[last.storeOffset + i], db[found[last.storeOffset + i]])]

\* Page 2 asked with limit 1 and no offset over two rows: the first row comes back.
C14_Witness ==
  /\ last.op = "findAllPaginated" /\ Ok(last)
  /\ last.page = 2 /\ last.limit = 1 /\ last.offset = Omitted
  /\ last.count = 2
  /\ Len(last.rows) = 1 /\ last.rows[1].id = 1

\* C15: calculateOffset(limit, page) returns limit * (page - 1), which is
\* not negative for limit >= 0 and page >= 1, and changes nothing of the
\* store or of the repository.
C15_CalculateOffset ==
  [][last'.op = "calculateOffset" =>
       /\ last'.value = last'.limit * (last'.page - 1)
       /\ (last'.limit >= 0 /\ last'.page >= 1) => last'.value >= 0
       /\ last'.page = 1 => last'.value = 0
       /\ UNCHANGED <<db, txw, txTouched, txn, usedKeys, purged, handles, nops, autoGenerateId>>
    ]_vars

\* calculateOffset(10, 3) = 20
C15_Witness ==
  /\ last.op = "calculateOffset"
  /\ last.limit = 10 /\ last.page = 3
  /\ last.value = 20

\* C16: an insertMany that resolves returns as many entities as attribute
\* sets were given, the i-th made of the i-th set; with auto-generation the
\* generator was called once per item and the entities carry its values,
\* pairwise distinct, and the batch is never rejected for a primary key two
\* of its items share.
C16_FreshIdPerItem ==
  last.op = "insertMany" =>
    LET k == Len(last.dtos)
        sameUnique(i, j) ==
          /\ last.dtos[i].unique_field # NULL
          /\ last.dtos[i].unique_field = last.dtos[j].unique_field
    IN /\ Ok(last) =>
            /\ Len(last.rows) = k
            /\ \A i \in 1..k :
                 /\ last.rows[i].name = last.dtos[i].name
                 /\ last.rows[i].unique_field = last.dtos[i].unique_field
                 /\ db[last.rows[i].id].exists
       /\ autoGenerateId =>
            /\ Len(last.generated) = k
            /\ \A i, j \in 1..k : i # j => last.generated[i] # last.generated[j]
            /\ Ok(last) => \A i \in 1..k : last.rows[i].id = last.generated[i]
            /\ last.failed = "UniqueConstraintError" =>
                 \/ \E i, j \in 1..k : i # j /\ sameUnique(i, j)
                 \/ \E i \in 1..k, j \in Keys :
                      /\ db[j].exists
                      /\ last.dtos[i].unique_field # NULL
                      /\ db[j].unique_field = last.dtos[i].unique_field
       /\ ~autoGenerateId => last.generated = <<>>

\* A batch of two with auto-generation: two entities with different keys.
C16_Witness ==
  /\ last.op = "insertMany" /\ Ok(last) /\ autoGenerateId
  /\ Len(last.dtos) = 2 /\ Len(last.rows) = 2 /\ Len(last.generated) = 2
  /\ last.rows[1].id # last.rows[2].id

\* C17 as stated: a primary key the caller supplies to create is the
\* primary key of the created entity, and a key is generated only when the
\* repository auto-generates and the caller omitted it.
C17_Original ==
  (last.op = "create" /\ Ok(last)) =>
    /\ last.dto.id # NoKey => last.entity.id = last.dto.id
    /\ last.generated # <<>> => (autoGenerateId /\ last.dto.id = NoKey)

\* C18 as stated: updateByPk on a live entity gives every attribute named
\* in the partial attribute set the given value.
C18_Original ==
  (last.op = "updateByPk" /\ Ok(last) /\ last.loaded.found) =>
    /\ last.dto.name # Unset => last.entity.name = last.dto.name
    /\ last.dto.unique_field # Unset => last.entity.unique_field = last.dto.unique_field
    /\ last.dto.deletedAt # NoDate => last.entity.deletedAt = last.dto.deletedAt
    /\ last.dto.id # NoKey => last.entity.id = last.dto.id

\* C18 amended: updateByPk on a live entity gives the named attributes other
\* than the primary key and deletedAt the given values, leaves the primary
\* key, deletedAt and every attribute not named as they were, persists the
\* result, and returns the entity a following findByPk returns.
C18_NamedWritableAttributes ==
  (last.op = "updateByPk" /\ Ok(last) /\ last.loaded.found) =>
    /\ last.entity.name =
         IF last.dto.name # Unset THEN last.dto.name ELSE last.loaded.name
    /\ last.entity.unique_field =
         IF last.dto.unique_field # Unset THEN last.dto.unique_field
         ELSE last.loaded.unique_field
    /\ last.entity.deletedAt = last.loaded.deletedAt
    /\ last.entity.deletedAt = NoDate
    /\ last.entity.id = last.pk
    /\ Live(db[last.pk])
    /\ last.entity = Entity(last.pk, db[last.pk])
    /\ last.entity = ModelFindByPk(db, last.pk, TRUE)

\* A live entity updated with a new name, another primary key and a
\* deletedAt: the name is stored, the key and deletedAt are as before.
C18_Witness ==
  /\ last.op = "updateByPk" /\ Ok(last) /\ last.loaded.found
  /\ last.dto.name = "b" /\ last.loaded.name = "a"
  /\ last.dto.deletedAt # NoDate
  /\ last.dto.id # NoKey /\ last.dto.id # last.pk
  /\ db[last.pk].name = "b" /\ db[last.pk].deletedAt = NoDate

\* C19: updateByPk, deleteByPk and restoreByPk on a primary key the store
\* holds no row for return null, raise nothing, log nothing and change
\* nothing in the store, provided the store itself does not fail.
C19_AbsentKeyIsNull ==
  [][(/\ nops' = nops + 1
      /\ last'.op \in Mutations
      /\ ~db[last'.pk].exists
      /\ last'.failed # "DatabaseError") =>
       /\ ~last'.entity.found
       /\ ~last'.loaded.found
       /\ last'.failed = "none"
       /\ Ok(last')
       /\ last'.log = <<>>
       /\ UNCHANGED <<db, txw, txTouched, usedKeys, purged>>
    ]_vars

\* A second force delete of a purged key: null, no error, no log.
C19_Witness ==
  /\ last.op = "deleteByPk" /\ last.force
  /\ last.pk \in purged /\ ~db[last.pk].exists
  /\ ~last.entity.found /\ Ok(last) /\ last.log = <<>>

\* What a read has to answer from: nothing visible matches.
NothingMatches(call) ==
  IF call.op = "findByPk"
  THEN ~(db[call.pk].exists /\ (call.paranoid => db[call.pk].deletedAt = NoDate))
  ELSE ~\E k \in Keys :
          /\ db[k].exists /\ (call.paranoid => db[k].deletedAt = NoDate)
          /\ Answers(call.query, k)

\* C20 as stated: findByPk, findOne and findAll resolve to null, null and
\* the empty list when nothing matches, whatever the caller's options.
C20_Original ==
  (/\ last.op \in {"findByPk", "findOne", "findAll"}
   /\ last.failed # "DatabaseError"
   /\ NothingMatches(last)) =>
     /\ Ok(last)
     /\ ~last.entity.found
     /\ last.rows = <<>>

\* C20 amended: when nothing matches, the three reads resolve to null, null
\* and the empty list unless the caller's options carry rejectOnEmpty; with
\* rejectOnEmpty they reject with InternalServerErrorException and log the
\* store's EmptyResultError. Absence is never raised as a not-found error.
C20_NullUnlessRejectOnEmpty ==
  (/\ last.op \in {"findByPk", "findOne", "findAll"}
   /\ last.failed # "DatabaseError"
   /\ NothingMatches(last)) =>
     /\ ~last.entity.found
     /\ last.rows = <<>>
     /\ ~last.rejectOnEmpty => (Ok(last) /\ last.log = <<>>)
     /\ last.rejectOnEmpty =>
          /\ last.err = InternalServerErrorException(last.op)
          /\ last.log = <<LogEntry(last.op, "EmptyResultError")>>
     /\ last.err.kind # "NotFoundException"

\* findOne with rejectOnEmpty over a table whose only row is soft-deleted.
C20_Witness ==
  /\ last.op = "findOne" /\ last.rejectOnEmpty /\ last.paranoid
  /\ \E k \in Keys : SoftDeleted(db[k])
  /\ NothingMatches(last)
  /\ last.err.kind = "InternalServerErrorException"

\* C21: constructing AbstractRepository itself fails with the error
\* 'AbstractRepository cannot be instantiated directly' whatever the options,
\* constructing a class extending it succeeds, and neither makes a store
\* call; no repository call precedes a successful construction.
C21_NoDirectInstance ==
  [][/\ last'.op = "constructor" =>
          /\ last'.target = "AbstractRepository" =>
               (last'.err = DirectInstantiation /\ ~Built')
          /\ last'.target # "AbstractRepository" => (Ok(last') /\ Built')
          /\ UNCHANGED <<db, txw, txTouched, usedKeys, purged, txn, handles, nops>>
     /\ ~Built => (last'.op = "constructor" /\ nops = 0 /\ handles = 0)
    ]_vars

\* AbstractRepository constructed directly: the error, no repository.
C21_Witness ==
  /\ last.op = "constructor" /\ last.target = "AbstractRepository"
  /\ last.err = DirectInstantiation
  /\ ~Built /\ nops = 0

\* The call of c made alone: load and persist with nothing in between.
Alone(c) ==
  CASE c.op = "updateByPk" -> updateByPkCall(c.pk, c.dto, FALSE, "none")
    [] c.op = "deleteByPk" -> deleteByPkCall(c.pk, c.force, FALSE, "none")
    [] c.op = "restoreByPk" -> restoreByPkCall(c.pk, FALSE, "none")

\* C22: with concurrent calls on distinct primary keys, in every interleaving
\* of their load and persist steps each call ends with the result and the
\* store effect it has when made alone at that moment, and the repository's
\* configuration never changes.
C22_DistinctKeysDoNotInterfere ==
  [][/\ \A t \in Tasks :
          (pending[t].pc # "done" /\ pending'[t].pc = "done") => Alone(pending'[t])
     /\ UNCHANGED autoGenerateId
    ]_vars

\* A force delete completed on one key while an update of a live entity of
\* another key is between its load and its persist.
C22_Witness ==
  /\ pending[1].pc = "loaded" /\ pending[1].op = "updateByPk"
  /\ pending[2].pc = "done" /\ pending[2].op = "deleteByPk" /\ pending[2].force
  /\ pending[2].result.entity.found
  /\ pending[1].pk # pending[2].pk
  /\ ~db[pending[2].pk].exists

\* C23: an invocation issues each of its store calls at most once, also
\* when the call fails, and every transaction() call opens one store
\* transaction and runs its callback once, also when the callback fails;
\* nothing else opens a store transaction.
C23_NoRetries ==
  [][/\ \A i, j \in 1..Len(last'.issued) : i # j => last'.issued[i] # last'.issued[j]
     /\ last'.op \in StoreCalls => Len(last'.issued) \in {1, 2}
     /\ (last'.op \in Mutations /\ ~last'.loaded.found) => last'.issued = <<"findByPk">>
     /\ IF last'.op = "transactionBegin"
        THEN handles' = handles + 1 /\ txn'.calls = txn.calls + 1
        ELSE handles' = handles /\ txn'.calls = txn.calls
     /\ handles' = txn'.calls
    ]_vars

\* A deleteByPk whose destroy the store failed: findByPk and destroy issued
\* once each, after a transaction whose callback failed.
C23_Witness ==
  /\ last.op = "deleteByPk" /\ last.failed = "DatabaseError"
  /\ last.issued = <<"findByPk", "destroy">>
  /\ txn.status = "rolledback" /\ handles = 1 /\ txn.calls = 1

\* What a call with entry point create or insert does, from the state before
\* it, the recorded attribute set and whether the store failed: one outcome.
CreateOutcome(r) ==
  IF r.failed = "DatabaseError"
  THEN /\ UNCHANGED <<db, usedKeys, purged>>
       /\ ~r.entity.found
       /\ r.err = InternalServerErrorException("create")
       /\ r.log = <<LogEntry("insert", "DatabaseError")>>
  ELSE LET dto == r.dto
           k == IF dto.id = NoKey THEN DefaultKey ELSE dto.id
           conflict ==
             \/ db[k].exists
             \/ /\ dto.unique_field # NULL
                /\ \E j \in Keys \ {k} :
                     db[j].exists /\ db[j].unique_field = dto.unique_field
       IN IF conflict
          THEN /\ UNCHANGED <<db, usedKeys, purged>>
               /\ ~r.entity.found
               /\ r.failed = "UniqueConstraintError"
               /\ r.err = InternalServerErrorException("create")
               /\ r.log = <<LogEntry("insert", "UniqueConstraintError")>>
          ELSE /\ db' = [db EXCEPT ![k] = Row(dto.name, dto.unique_field, dto.deletedAt)]
               /\ usedKeys' = usedKeys \cup {k}
               /\ r.entity = Entity(k, db'[k])
               /\ r.pk = k
               /\ r.failed = "none" /\ Ok(r) /\ r.log = <<>>

BothDone(op) ==
  /\ pending[1].pc = "done" /\ pending[2].pc = "done"
  /\ pending[1].op = op /\ pending[2].op = op
  /\ pending[1].pk = pending[2].pk

\* C25 as stated: of two concurrent soft deleteByPk calls on one live entity
\* at most one returns the entity (as in either sequential order).
C25_Original ==
  (BothDone("deleteByPk") /\ ~pending[1].force /\ ~pending[2].force) =>
    ~(pending[1].result.entity.found /\ pending[2].result.entity.found)

\* What a completed call returned, from the entity it loaded.
ResultOf(c) ==
  CASE c.op = "updateByPk" -> SetAttributes(c.entity, c.dto)
    [] c.op = "deleteByPk" -> [c.entity EXCEPT !.deletedAt = c.result.entity.deletedAt]
    [] c.op = "restoreByPk" -> [c.entity EXCEPT !.deletedAt = NoDate]

\* C25 amended: a call returns null when its load found nothing and
\* otherwise the entity it loaded with its own change applied, whatever other
\* calls on the key did between its load and its persist; the persist
\* writes the attributes the call changed over the row as it then is, and
\* nothing when the row is gone.
C25_LoadThenPersist ==
  /\ \A t \in Tasks :
       pending[t].pc = "done" =>
         LET c == pending[t]
         IN /\ c.result.loaded = c.entity
            /\ ~c.entity.found => ~c.result.entity.found
            /\ (c.entity.found /\ Ok(c.result)) =>
                 /\ c.result.entity = ResultOf(c)
                 /\ c.op = "deleteByPk" => c.result.entity.deletedAt # NoDate
  /\ (last.op \in Mutations /\ Ok(last) /\ last.loaded.found /\ db[last.pk].exists) =>
       /\ last.op = "updateByPk" /\ last.dto.name # last.loaded.name =>
            db[last.pk].name = last.dto.name
       /\ last.op = "deleteByPk" => db[last.pk].deletedAt # NoDate
       /\ last.op = "restoreByPk" /\ last.loaded.deletedAt # NoDate =>
            db[last.pk].deletedAt = NoDate

\* Two soft deletes of one live entity, both loaded before either persisted:
\* both return the entity.
C25_Witness ==
  /\ BothDone("deleteByPk") /\ ~pending[1].force /\ ~pending[2].force
  /\ pending[1].entity.found /\ pending[1].entity.deletedAt = NoDate
  /\ pending[2].entity.found /\ pending[2].entity.deletedAt = NoDate
  /\ pending[1].result.entity.found /\ pending[2].result.entity.found
  /\ db[pending[1].pk].deletedAt # NoDate

\* C26: updateByPk and deleteByPk without force on a soft-deleted entity
\* return null and change nothing, the deletedAt timestamp included;
\* restoreByPk on a live entity returns it and leaves it live.
C26_NotApplicableIsNoOp ==
  [][(/\ nops' = nops + 1
      /\ last'.op \in Mutations
      /\ last'.failed # "DatabaseError") =>
       /\ (/\ SoftDeleted(db[last'.pk])
           /\ last'.op = "updateByPk" \/ (last'.op = "deleteByPk" /\ ~last'.force)) =>
            /\ ~last'.entity.found
            /\ Ok(last') /\ last'.log = <<>>
            /\ UNCHANGED <<db, purged>>
            /\ db'[last'.pk].deletedAt = db[last'.pk].deletedAt
       /\ (Live(db[last'.pk]) /\ last'.op = "restoreByPk") =>
            /\ last'.entity = Entity(last'.pk, db[last'.pk])
            /\ last'.entity.deletedAt = NoDate
            /\ Ok(last') /\ last'.log = <<>>
            /\ UNCHANGED <<db, purged>>
            /\ Live(db'[last'.pk])
    ]_vars

\* A second soft delete of a soft-deleted entity: null, the timestamp stays.
C26_Witness ==
  /\ last.op = "deleteByPk" /\ ~last.force
  /\ SoftDeleted(db[last.pk])
  /\ ~last.entity.found /\ Ok(last)
  /\ nops = 3

\* C27 as stated: a call the store failed has exactly one log entry.
C27_Original == last.failed # "none" => Len(last.log) = 1

\* The failure happened in the load step of updateByPk, deleteByPk or
\* restoreByPk: findByPk was the only store call issued.
LoadFailed(call) ==
  call.op \in Mutations /\ call.failed # "none" /\ call.issued = <<"findByPk">>

\* C27 amended: a store failure surfaces as one InternalServerErrorException
\* and is logged once by every public operation it passes through: once by
\* the operation whose store call failed, a second time by updateByPk,
\* deleteByPk or restoreByPk when it failed in their load through findByPk
\* (that entry names the InternalServerErrorException, not the store's
\* error), and once more by transaction() when the callback lets it out.
C27_LoggedAtEveryBoundary ==
  [][/\ last'.failed # "none" =>
          /\ last'.err.kind = "InternalServerErrorException"
          /\ Len(last'.log) >= 1
          /\ last'.log[1].error = last'.failed
          /\ IF LoadFailed(last')
             THEN /\ Len(last'.log) = 2
                  /\ last'.log[1].prefix = "findByPk"
                  /\ last'.log[2].error = "InternalServerErrorException"
             ELSE Len(last'.log) = 1
     /\ (/\ TxOpen /\ last.failed # "none"
         /\ last'.op = "transaction" /\ txn'.raised = last.err) =>
          /\ Len(last.log) >= 1
          /\ last'.log = <<LogEntry("transaction", "InternalServerErrorException")>>
          /\ last'.err.kind = "InternalServerErrorException"
    ]_vars

\* The store fails the load of an updateByPk: two log entries, one error.
C27_Witness ==
  /\ last.op = "updateByPk" /\ last.failed = "DatabaseError"
  /\ LoadFailed(last)
  /\ last.log = <<LogEntry("findByPk", "DatabaseError"),
                  LogEntry("updatedByPk", "InternalServerErrorException")>>
  /\ last.err.kind = "InternalServerErrorException"

Inserts == {"create", "insert", "insertMany"}

Occurrences(seq, x) == Cardinality({i \in 1..Len(seq) : seq[i] = x})

\* C29 as stated: whatever runs between the page requests, a caller that has
\* read the pages 1..ceil(N/limit) has received every entity that matched
\* throughout exactly once and the same count on every page.
C29_Original ==
  scan.status = "complete" =>
    /\ \A k \in scan.stable : Occurrences(scan.seen, k) = 1
    /\ \A i, j \in 1..Len(scan.counts) : scan.counts[i] = scan.counts[j]

\* C29 amended: when the table does not change between the first and the last
\* page request, the pages 1..ceil(N/limit) hold every matching entity exactly
\* once, in the store's order, and every page reports the count N.
C29_UnchangedStoreIsPagedExactly ==
  (scan.status = "complete" /\ ~scan.changed) =>
    LET N == Cardinality(scan.stable)
    IN /\ \A k \in scan.stable : Occurrences(scan.seen, k) = 1
       /\ Len(scan.seen) = N
       /\ \A i, j \in 1..Len(scan.seen) : i < j => scan.seen[i] < scan.seen[j]
       /\ \A i \in 1..Len(scan.counts) : scan.counts[i] = N
       /\ Len(scan.counts) = IF N = 0 THEN 1 ELSE Pages(N, scan.limit)

\* Two pages of one entity each, read after another call had run.
C29_Witness ==
  /\ scan.status = "complete" /\ ~scan.changed
  /\ scan.limit = 1
  /\ Len(scan.counts) = 2 /\ Len(scan.seen) = 2
  /\ nops >= 1

\* C30: findByPk, findOne, findAll, findAllPaginated and calculateOffset
\* change nothing in the store; updateByPk, deleteByPk and restoreByPk with
\* primary key k leave every entity with another key as it was: present or
\* absent, its attributes and its deletedAt.
C30_Frame ==
  [][/\ last'.op \in Reads \cup {"calculateOffset"} =>
          UNCHANGED <<db, txw, txTouched, usedKeys, purged>>
     /\ (nops' = nops + 1 /\ last'.op \in Mutations) =>
          /\ \A j \in Keys \ {last'.pk} :
               /\ db'[j] = db[j]
               /\ (j \in purged') = (j \in purged)
          /\ Cardinality({j \in Keys \ {last'.pk} : db'[j].exists})
               = Cardinality({j \in Keys \ {last'.pk} : db[j].exists})
          /\ UNCHANGED <<txw, txTouched, usedKeys>>
    ]_vars

\* A soft delete of one of two live entities: the other one is still live.
C30_Witness ==
  /\ last.op = "deleteByPk" /\ ~last.force /\ last.entity.found
  /\ SoftDeleted(db[last.pk])
  /\ \E j \in Keys \ {last.pk} : Live(db[j])
  /\ nops >= 2
====
